---- MODULE Spec2Model ----
(***************************************************************************)
(* The external scanner of tree-sitter-ipynb (src/scanner.c): one scan    *)
(* call recognises either a CONTENT_LINE or a CELL_END token at the       *)
(* lexer's cursor.  The lexer is the host's TSLexer: a forward-only       *)
(* cursor with a lookahead character (0 at end of input), advance and      *)
(* mark_end.  Characters are their ASCII codes, as the C code compares     *)
(* them.                                                                   *)
(***************************************************************************)
EXTENDS Integers, Sequences, FiniteSets, TLC

VARIABLES input, cursor, lexer, entry, valid_symbols, ret, called, driving, out,
          payload, serialized, hooks

vars == <<input, cursor, lexer, entry, valid_symbols, ret, called, driving, out,
          payload, serialized, hooks>>

----------------------------------------------------------------------------
(* Bounds of the model *)

\* Number of free characters placed around the marker prefix of an input.
MaxFree == 2

----------------------------------------------------------------------------
(* Program constants *)

CONTENT_LINE == 0
CELL_END == 1

\* The null pointer
NULL == 0

\* '#', '\n' and the lookahead value at end of input
HASH == 35
NEWLINE == 10
NUL == 0

\* Faulty variant of marker: the literal lacks its last character
marker_short ==
  <<35, 32, 60, 60, 47, 105, 112, 121, 110, 98, 95, 110, 118, 105, 109, 62, 0>>

\* const char *marker = "# <</ipynb_nvim>>";  (a C string: the literal's
\* characters followed by the terminating '\0')
marker ==
  <<35, 32, 60, 60, 47, 105, 112, 121, 110, 98, 95, 110, 118, 105, 109, 62, 62, 0>>

----------------------------------------------------------------------------
(* The host's lexer *)

\* lexer->lookahead: the character at the cursor, 0 at end of input
lookahead(l) == IF l.pos < Len(input) THEN input[l.pos + 1] ELSE NUL

\* advance(lexer): lexer->advance(lexer, false); moves the cursor one
\* character forward (the cursor stays at end of input once there)
advance(l) ==
  [l EXCEPT !.pos = IF l.pos < Len(input) THEN l.pos + 1 ELSE l.pos,
            !.advances = l.advances + 1,
            !.eof_advances = l.eof_advances + (IF l.pos < Len(input) THEN 0 ELSE 1)]

\* Faulty variant of mark_end: the token end is not fixed
mark_end_missing(l) == l

\* lexer->mark_end(lexer): fixes the token end at the cursor
mark_end(l) == [l EXCEPT !.marked = TRUE, !.token_end = l.pos]

\* lexer->result_symbol = sym
set_result(l, sym) == [l EXCEPT !.result_symbol = sym, !.writes = l.writes + 1]

----------------------------------------------------------------------------
(* scanner.c *)

\* void *tree_sitter_ipynb_external_scanner_create(void)
create == NULL

\* void tree_sitter_ipynb_external_scanner_destroy(void *payload): the
\* scanner's state after the call
destroy(p) == p

\* Faulty variant of serialize: one byte is reported
serialize_byte(p, buffer) == [length |-> 1, buffer |-> <<p>>]

\* unsigned tree_sitter_ipynb_external_scanner_serialize(payload, buffer):
\* the number of bytes reported and the buffer after the call
serialize(p, buffer) == [length |-> 0, buffer |-> buffer]

\* void tree_sitter_ipynb_external_scanner_deserialize(payload, buffer,
\* length): the scanner's state after the call
deserialize(p, buffer, length) == p

\* Faulty variant of check_end_marker_from: the loop ends one character
\* early, so the last character of the marker is never compared
RECURSIVE check_end_marker_short(_, _)
check_end_marker_short(l, i) ==
  IF marker[i + 2] = NUL THEN [ret |-> TRUE, lexer |-> l]
  ELSE LET c == [l EXCEPT !.compares = l.compares + 1] IN
       IF lookahead(c) # marker[i + 1] THEN [ret |-> FALSE, lexer |-> c]
       ELSE check_end_marker_short(advance(c), i + 1)

\* static bool check_end_marker(TSLexer *lexer): the loop from index i on
RECURSIVE check_end_marker_from(_, _)
check_end_marker_from(l, i) ==
  IF marker[i + 1] = NUL THEN [ret |-> TRUE, lexer |-> l]
  ELSE LET c == [l EXCEPT !.compares = l.compares + 1] IN
       IF lookahead(c) # marker[i + 1] THEN [ret |-> FALSE, lexer |-> c]
       ELSE check_end_marker_from(advance(c), i + 1)

check_end_marker(l) == check_end_marker_from(l, 0)

\* Faulty variant of optional_newline: the newline after the marker is
\* never consumed
optional_newline_never(l) == l

\* Faulty variant of optional_newline: whatever follows the marker is
\* consumed
optional_newline_any(l) == IF lookahead(l) # NUL THEN advance(l) ELSE l

\* if (lexer->lookahead == '\n') advance(lexer);   (scan, lines 46-48)
optional_newline(l) == IF lookahead(l) = NEWLINE THEN advance(l) ELSE l

\* Faulty variant of cell_end_attempt: a failed match puts the cursor back
\* where the attempt began
cell_end_attempt_rollback(l) ==
  IF lookahead(l) = HASH
  THEN LET m == check_end_marker(l) IN
       IF m.ret
       THEN [ret |-> TRUE, lexer |-> set_result(optional_newline(m.lexer), CELL_END)]
       ELSE [ret |-> FALSE, lexer |-> l]
  ELSE [ret |-> FALSE, lexer |-> l]

\* Faulty variant of cell_end_attempt: the result kind is written before
\* the marker is checked
cell_end_attempt_early_write(l) ==
  IF lookahead(l) = HASH
  THEN LET m == check_end_marker(set_result(l, CELL_END)) IN
       IF m.ret
       THEN [ret |-> TRUE, lexer |-> optional_newline(m.lexer)]
       ELSE [ret |-> FALSE, lexer |-> m.lexer]
  ELSE [ret |-> FALSE, lexer |-> l]

\* The CELL_END attempt of scan (lines 43-52), entered when
\* valid_symbols[CELL_END] holds
cell_end_attempt(l) ==
  IF lookahead(l) = HASH
  THEN LET m == check_end_marker(l) IN
       IF m.ret
       THEN [ret |-> TRUE, lexer |-> set_result(optional_newline(m.lexer), CELL_END)]
       ELSE [ret |-> FALSE, lexer |-> m.lexer]
  ELSE [ret |-> FALSE, lexer |-> l]

\* Faulty variant of marker_line_check: every line that starts with '#' is
\* taken for an end marker
marker_line_check_hash(l) ==
  IF lookahead(l) = HASH
  THEN [ret |-> TRUE, lexer |-> mark_end(l)]
  ELSE [ret |-> FALSE, lexer |-> l]

\* The marker check of the CONTENT_LINE attempt (lines 58-65): TRUE when
\* the line is an end marker
marker_line_check(l) ==
  IF lookahead(l) = HASH
  THEN check_end_marker(mark_end(l))
  ELSE [ret |-> FALSE, lexer |-> l]

\* Faulty variant of consume_until_newline: the loop stops only at end of
\* input
RECURSIVE consume_until_eof(_)
consume_until_eof(l) ==
  IF lookahead(l) # NUL THEN consume_until_eof(advance(l)) ELSE l

\* while (lexer->lookahead != '\n' && lexer->lookahead != 0) advance(lexer);
RECURSIVE consume_until_newline(_)
consume_until_newline(l) ==
  IF lookahead(l) # NEWLINE /\ lookahead(l) # NUL
  THEN consume_until_newline(advance(l))
  ELSE l

\* Faulty variant of content_line_end: the character after the line is
\* consumed without a look at it
content_line_end_blind(l) ==
  [ret |-> TRUE, lexer |-> set_result(advance(l), CONTENT_LINE)]

\* Faulty variant of content_line_end: at end of input the result kind is
\* not written
content_line_end_unset(l) ==
  IF lookahead(l) = NEWLINE
  THEN [ret |-> TRUE, lexer |-> set_result(advance(l), CONTENT_LINE)]
  ELSE IF lookahead(l) = NUL
       THEN [ret |-> TRUE, lexer |-> l]
       ELSE [ret |-> FALSE, lexer |-> l]

\* Faulty variant of content_line_end: at end of input a token is emitted
\* only if the call consumed something
content_line_end_nonempty(l) ==
  IF lookahead(l) = NEWLINE
  THEN [ret |-> TRUE, lexer |-> set_result(advance(l), CONTENT_LINE)]
  ELSE IF lookahead(l) = NUL /\ l.advances > 0
       THEN [ret |-> TRUE, lexer |-> set_result(l, CONTENT_LINE)]
       ELSE [ret |-> FALSE, lexer |-> l]

\* The end of the CONTENT_LINE attempt (lines 72-83): the newline, or end
\* of input
content_line_end(l) ==
  IF lookahead(l) = NEWLINE
  THEN [ret |-> TRUE, lexer |-> set_result(advance(l), CONTENT_LINE)]
  ELSE IF lookahead(l) = NUL
       THEN [ret |-> TRUE, lexer |-> set_result(l, CONTENT_LINE)]
       ELSE [ret |-> FALSE, lexer |-> l]

\* The CONTENT_LINE attempt of scan (lines 57-83), entered when
\* valid_symbols[CONTENT_LINE] holds
content_line_attempt(l) ==
  LET m == marker_line_check(l) IN
  IF m.ret
  THEN [ret |-> FALSE, lexer |-> m.lexer]
  ELSE content_line_end(consume_until_newline(m.lexer))

\* Faulty variant of scan: the CONTENT_LINE attempt comes first
scan_content_first(l, valid) ==
  IF valid[CONTENT_LINE]
  THEN content_line_attempt(l)
  ELSE IF valid[CELL_END]
       THEN cell_end_attempt(l)
       ELSE [ret |-> FALSE, lexer |-> l]

\* Faulty variant of scan: the CONTENT_LINE attempt is not guarded by
\* valid_symbols[CONTENT_LINE]
scan_unguarded(l, valid) ==
  LET e == IF valid[CELL_END]
           THEN cell_end_attempt(l)
           ELSE [ret |-> FALSE, lexer |-> l] IN
  IF e.ret THEN e ELSE content_line_attempt(e.lexer)

\* bool tree_sitter_ipynb_external_scanner_scan(payload, lexer, valid_symbols)
scan(l, valid) ==
  LET e == IF valid[CELL_END]
           THEN cell_end_attempt(l)
           ELSE [ret |-> FALSE, lexer |-> l] IN
  IF e.ret THEN e
  ELSE IF valid[CONTENT_LINE]
       THEN content_line_attempt(e.lexer)
       ELSE [ret |-> FALSE, lexer |-> e.lexer]

----------------------------------------------------------------------------
(* The host *)

\* The characters of the inputs: 'a', '#', '\n', '>' (0 is not a character
\* of an input: the lexer reports it as the lookahead at end of input)
Alphabet == {97, HASH, NEWLINE, 62}

Strings(n) == UNION {[1..m -> Alphabet] : m \in 0..n}

\* The inputs: a prefix of the marker literal of any length, with up to
\* MaxFree free characters before and after it
Inputs ==
  {h \o SubSeq(marker, 1, k) \o t :
     <<h, k, t>> \in {x \in Strings(MaxFree) \X (0..(Len(marker) - 1)) \X Strings(MaxFree) :
                        Len(x[1]) + Len(x[3]) <= MaxFree}}

RequestSets == [{CONTENT_LINE, CELL_END} -> BOOLEAN]

\* The lexer as the host hands it to a scan call at position p: the token
\* end not yet marked, the call's counters at zero
start_call(l, p) ==
  [l EXCEPT !.pos = p, !.marked = FALSE, !.token_end = p, !.advances = 0,
            !.eof_advances = 0, !.compares = 0, !.writes = 0]

\* The end of the token the host takes from a successful call: the last
\* position fixed by mark_end, or the cursor if mark_end was never called
TokenEnd(l) == IF l.marked THEN l.token_end ELSE l.pos

\* The text from position p on begins with the marker
RECURSIVE MarkerAt(_, _)
MarkerAt(p, i) ==
  IF marker[i + 1] = NUL THEN TRUE
  ELSE IF p + i < Len(input) /\ input[p + i + 1] = marker[i + 1]
       THEN MarkerAt(p, i + 1)
       ELSE FALSE

\* The request of the restarting host at position p: CELL_END on a marker
\* line, CONTENT_LINE on every other line
RestartRequest(p) ==
  [k \in {CONTENT_LINE, CELL_END} |-> (k = CELL_END) <=> MarkerAt(p, 0)]

\* input:  the text being scanned
\* cursor: where the host's cursor stands (where the next call starts)
\* lexer:  the lexer as the last scan call left it; entry: as that call
\*         received it; valid_symbols, ret: that call's request and result
\* called: a scan call has been made
\* driving, out: every call so far restarted at the end of the previous
\*         token with the restarting host's request; the tokens so far
\* payload: the scanner's state, as create returned it
\* serialized: what the last serialize call reported and left in the buffer
\* hooks:  pending: a lifecycle hook was called since the last scan call;
\*         before: one was called between the last two scan calls
Init ==
  /\ input \in Inputs
  /\ cursor = 0
  /\ lexer = [pos |-> 0, marked |-> FALSE, token_end |-> 0,
              result_symbol |-> CONTENT_LINE, advances |-> 0,
              eof_advances |-> 0, compares |-> 0, writes |-> 0]
  /\ entry = lexer
  /\ valid_symbols = [k \in {CONTENT_LINE, CELL_END} |-> FALSE]
  /\ ret = FALSE
  /\ called = FALSE
  /\ driving = TRUE
  /\ out = <<>>
  /\ payload = create
  /\ serialized = [length |-> 0, buffer |-> <<>>]
  /\ hooks = [pending |-> FALSE, before |-> FALSE]

\* The host calls scan at the cursor with the request set v
Scan(v) ==
  LET e == start_call(lexer, cursor)
      r == scan(e, v)
      d == /\ driving
           /\ cursor = Len(out)
           /\ cursor < Len(input)
           /\ v = RestartRequest(cursor)
  IN
  /\ entry' = e
  /\ valid_symbols' = v
  /\ lexer' = r.lexer
  /\ cursor' = r.lexer.pos
  /\ ret' = r.ret
  /\ called' = TRUE
  /\ driving' = d
  /\ out' = IF d
            THEN IF r.ret
                 THEN out \o SubSeq(input, cursor + 1, TokenEnd(r.lexer))
                 ELSE out
            ELSE <<>>
  /\ hooks' = [pending |-> FALSE, before |-> hooks.pending]
  /\ UNCHANGED <<input, payload, serialized>>

\* After a successful call the host takes the token and positions the
\* cursor at its end
Accept ==
  /\ called /\ ret
  /\ cursor # TokenEnd(lexer)
  /\ cursor' = TokenEnd(lexer)
  /\ UNCHANGED <<input, lexer, entry, valid_symbols, ret, called, driving, out,
                 payload, serialized, hooks>>

\* After a failed call the host puts the cursor back where the call began
Rewind ==
  /\ called /\ ~ret
  /\ cursor # entry.pos
  /\ cursor' = entry.pos
  /\ UNCHANGED <<input, lexer, entry, valid_symbols, ret, called, driving, out,
                 payload, serialized, hooks>>

Next ==
  \/ \E v \in RequestSets : Scan(v)
  \/ Accept
  \/ Rewind

Spec == Init /\ [][Next]_vars

\* The buffers the host hands to deserialize
Buffers == {<<>>, <<1>>}

\* The host creates the scanner anew
Create ==
  /\ payload' = create
  /\ hooks' = [hooks EXCEPT !.pending = TRUE]
  /\ UNCHANGED <<input, cursor, lexer, entry, valid_symbols, ret, called, driving,
                 out, serialized>>

\* The host destroys the scanner
Destroy ==
  /\ payload' = destroy(payload)
  /\ hooks' = [hooks EXCEPT !.pending = TRUE]
  /\ UNCHANGED <<input, cursor, lexer, entry, valid_symbols, ret, called, driving,
                 out, serialized>>

\* The host captures the scanner's state in an empty buffer
Serialize ==
  /\ serialized' = serialize(payload, <<>>)
  /\ hooks' = [hooks EXCEPT !.pending = TRUE]
  /\ UNCHANGED <<input, cursor, lexer, entry, valid_symbols, ret, called, driving,
                 out, payload>>

\* The host restores the scanner's state from the buffer b
Deserialize(b) ==
  /\ payload' = deserialize(payload, b, Len(b))
  /\ hooks' = [hooks EXCEPT !.pending = TRUE]
  /\ UNCHANGED <<input, cursor, lexer, entry, valid_symbols, ret, called, driving,
                 out, serialized>>

\* The host's calls with the lifecycle hooks among them
NextLifecycle ==
  \/ Next
  \/ Create
  \/ Destroy
  \/ Serialize
  \/ \E b \in Buffers : Deserialize(b)

SpecLifecycle == Init /\ [][NextLifecycle]_vars

----------------------------------------------------------------------------
(* Vocabulary of the properties *)

\* The marker literal as the specification writes it: # <</ipynb_nvim>>
MarkerLiteral ==
  <<35, 32, 60, 60, 47, 105, 112, 121, 110, 98, 95, 110, 118, 105, 109, 62, 62>>

\* Where the last call started, and the input from there on
Start == entry.pos
Rest == SubSeq(input, Start + 1, Len(input))

BeginsWith(s, pre) == Len(s) >= Len(pre) /\ SubSeq(s, 1, Len(pre)) = pre
BeginsWithMarker == BeginsWith(Rest, MarkerLiteral)

\* The request sets of the last call
OnlyCellEnd == called /\ valid_symbols[CELL_END] /\ ~valid_symbols[CONTENT_LINE]
OnlyContentLine == called /\ valid_symbols[CONTENT_LINE] /\ ~valid_symbols[CELL_END]
BothKinds == called /\ valid_symbols[CONTENT_LINE] /\ valid_symbols[CELL_END]
NeitherKind == called /\ ~valid_symbols[CONTENT_LINE] /\ ~valid_symbols[CELL_END]

\* The last call emitted a token of the kind
EmitsCellEnd == called /\ ret /\ lexer.result_symbol = CELL_END
EmitsContentLine == called /\ ret /\ lexer.result_symbol = CONTENT_LINE

\* The position just after the first newline at or after p, or the end of
\* the input when there is none
LineEnd(p) ==
  LET nl == {i \in (p + 1)..Len(input) : input[i] = NEWLINE} IN
  IF nl = {} THEN Len(input) ELSE CHOOSE i \in nl : \A j \in nl : i <= j

HasNewline == \E i \in (Start + 1)..Len(input) : input[i] = NEWLINE

\* A newline stands right after the marker literal's length from the start
NewlineAfterMarker ==
  /\ Start + Len(MarkerLiteral) < Len(input)
  /\ input[Start + Len(MarkerLiteral) + 1] = NEWLINE

----------------------------------------------------------------------------
(* Properties *)

\* C1 (marker exactness): a call that requests only CELL_END succeeds,
\* with kind CELL_END, if and only if the input at the call's start begins
\* with the marker literal; on every other input it reports no token.
C1_MarkerExactness ==
  OnlyCellEnd =>
    /\ (ret <=> BeginsWithMarker)
    /\ (ret => lexer.result_symbol = CELL_END)

\* C1 witness: a CELL_END-only call fails on an input that holds all of the
\* marker but its last character.
C1_Witness ==
  /\ OnlyCellEnd /\ ~ret
  /\ BeginsWith(Rest, SubSeq(MarkerLiteral, 1, Len(MarkerLiteral) - 1))
  /\ Len(Rest) > Len(MarkerLiteral)

C3_HashLineToken ==
  (/\ OnlyContentLine
   /\ Len(Rest) > 0 /\ Rest[1] = HASH
   /\ ~BeginsWithMarker
   /\ HasNewline)
  => /\ EmitsContentLine
     /\ TokenEnd(lexer) = LineEnd(Start)

C5_OptionalNewline ==
  LET after == Start + Len(MarkerLiteral) IN
  /\ EmitsCellEnd =>
       lexer.pos - Start =
         Len(MarkerLiteral)
           + (IF after < Len(input) /\ input[after + 1] = NEWLINE THEN 1 ELSE 0)
  /\ (called /\ valid_symbols[CELL_END] /\ BeginsWithMarker /\ after = Len(input))
       => EmitsCellEnd

\* C5 witness: CELL_END is emitted for a marker that is followed by a
\* character other than a newline.
C5_Witness ==
  /\ EmitsCellEnd
  /\ Start + Len(MarkerLiteral) < Len(input)
  /\ input[Start + Len(MarkerLiteral) + 1] # NEWLINE

\* C6 (idempotent restart): when every call starts at the end of the token
\* the previous call reported, requesting CELL_END on marker lines and
\* CONTENT_LINE on all other lines, every call before end of input
\* succeeds, each token is not empty and holds at most one line with its
\* newline, the tokens concatenated are exactly the input the scanner has
\* consumed so far, and they are the whole input once its end is reached.
C6_RestartReproduces ==
  (called /\ driving) =>
    /\ ret
    /\ TokenEnd(lexer) > Start
    /\ TokenEnd(lexer) <= LineEnd(Start)
    /\ out = SubSeq(input, 1, lexer.pos)
    /\ (lexer.pos = Len(input) => out = input)

\* C7 (no leakage across kinds): on an input that does not begin with the
\* marker, a call that requests both kinds has the outcome of a call that
\* requests only CONTENT_LINE from the same start: the same result, the
\* same token end and the same final cursor position.
C7_NoLeakage ==
  (BothKinds /\ ~BeginsWithMarker) =>
    LET alone == scan(entry, [k \in {CONTENT_LINE, CELL_END} |-> k = CONTENT_LINE]) IN
    /\ ret = alone.ret
    /\ (ret => lexer.result_symbol = alone.lexer.result_symbol)
    /\ TokenEnd(lexer) = TokenEnd(alone.lexer)
    /\ lexer.pos = alone.lexer.pos

\* C8 (request set discipline): a call whose request set holds neither
\* kind reports no token and leaves the cursor, the marked token end and
\* the result kind as they were when the call began.
C8_RequestDiscipline ==
  NeitherKind =>
    /\ ~ret
    /\ lexer.pos = entry.pos
    /\ lexer.advances = 0
    /\ lexer.marked = entry.marked /\ lexer.token_end = entry.token_end
    /\ lexer.result_symbol = entry.result_symbol /\ lexer.writes = 0

\* C8 witness: a call with neither kind requested is made in front of a
\* '#', past the start of the input, after an earlier call emitted CELL_END.
C8_Witness ==
  /\ NeitherKind
  /\ Start > 0 /\ Len(Rest) > 0 /\ Rest[1] = HASH
  /\ entry.result_symbol = CELL_END

\* C9 as claimed: when a call emits CELL_END the marker is followed only by
\* a newline or the end of input, and the cursor ends just after a newline
\* or at end of input.
C9_WholeMarkerLine ==
  EmitsCellEnd =>
    /\ LineEnd(Start) <= Start + Len(MarkerLiteral) + 1
    /\ (lexer.pos = Len(input) \/ input[lexer.pos] = NEWLINE)

\* C9 amended: when a call emits CELL_END it has consumed the marker and
\* the newline right after it, if there is one: the cursor ends just after
\* that newline, or at end of input, or directly after the marker in front
\* of a character that is not a newline (the rest of that line is not
\* consumed).
C9_MarkerAndNewline ==
  EmitsCellEnd =>
    /\ BeginsWithMarker
    /\ \/ lexer.pos = Len(input)
       \/ lexer.pos = Start + Len(MarkerLiteral) + 1 /\ input[lexer.pos] = NEWLINE
       \/ lexer.pos = Start + Len(MarkerLiteral) /\ input[lexer.pos + 1] # NEWLINE

\* C9 witness: CELL_END is emitted for a marker that is followed by a
\* newline and further text; the cursor ends after that newline.
C9_Witness ==
  /\ EmitsCellEnd
  /\ lexer.pos < Len(input)
  /\ input[lexer.pos] = NEWLINE

\* C10 as claimed: the marker is 18 characters long; a CELL_END match on a
\* marker not followed by a newline advances the cursor by 18 characters,
\* and a full match makes 18 character comparisons.
C10_Eighteen ==
  (EmitsCellEnd /\ ~NewlineAfterMarker) =>
    /\ lexer.pos - Start = 18
    /\ lexer.compares = 18

\* C10 amended: the marker the scanner compares against is the literal
\* # <</ipynb_nvim>>, which is 17 characters long; a CELL_END match on a
\* marker not followed by a newline advances the cursor by 17 characters,
\* and a call in which check_end_marker runs once and matches makes 17
\* character comparisons.
C10_Seventeen ==
  /\ called => SubSeq(marker, 1, Len(marker) - 1) = MarkerLiteral
  /\ called => Len(marker) - 1 = 17
  /\ (EmitsCellEnd /\ ~NewlineAfterMarker) => lexer.pos - Start = 17
  /\ EmitsCellEnd => lexer.compares = 17
  /\ (OnlyContentLine /\ ~ret) => lexer.compares = 17

\* C10 witness: CELL_END is emitted for a marker that ends the input.
C10_Witness ==
  /\ EmitsCellEnd
  /\ Start + Len(MarkerLiteral) = Len(input)
  /\ lexer.pos = Len(input)

\* C11 (termination): a scan call ends after a number of advance steps no
\* greater than the number of characters between the call's start and the
\* end of the input, and advance is never invoked at end of input.
C11_BoundedAdvance ==
  called =>
    /\ lexer.advances <= Len(input) - Start
    /\ lexer.advances = lexer.pos - Start
    /\ lexer.eof_advances = 0

\* C11 witness: a call that fails after advancing over every remaining
\* character, more than the marker's length of them.
C11_Witness ==
  /\ called /\ ~ret
  /\ Start > 0
  /\ lexer.advances = Len(input) - Start
  /\ lexer.advances > Len(MarkerLiteral)

\* The lexer of a host that has made no call yet
FreshLexer ==
  [pos |-> 0, marked |-> FALSE, token_end |-> 0, result_symbol |-> CONTENT_LINE,
   advances |-> 0, eof_advances |-> 0, compares |-> 0, writes |-> 0]

\* C12 (statelessness): the scanner's state is the null payload whatever
\* hooks were called, serialize reports 0 bytes and leaves the buffer
\* empty, and the result, the kind and the final cursor position of every
\* scan call are those of a newly created scanner called on a lexer without
\* history at the same position with the same request set, whatever calls
\* and lifecycle hooks came before.
C12_Stateless ==
  /\ payload = NULL
  /\ serialized.length = 0 /\ serialized.buffer = <<>>
  /\ called =>
       LET first == scan(start_call(FreshLexer, Start), valid_symbols) IN
       /\ ret = first.ret
       /\ lexer.pos = first.lexer.pos
       /\ ret => lexer.result_symbol = first.lexer.result_symbol

\* C12 witness: CONTENT_LINE is emitted at end of input by a call made
\* after an earlier call emitted CELL_END and lifecycle hooks were called
\* between the two.
C12_Witness ==
  /\ EmitsContentLine
  /\ hooks.before
  /\ entry.result_symbol = CELL_END
  /\ Start = Len(input)

\* The length of the longest common prefix of two sequences
CommonPrefix(s, t) ==
  LET ks == {k \in 0..Len(s) : k <= Len(t) /\ SubSeq(s, 1, k) = SubSeq(t, 1, k)} IN
  CHOOSE k \in ks : \A j \in ks : j <= k

CellEndOnly == [k \in {CONTENT_LINE, CELL_END} |-> k = CELL_END]

\* C13 as claimed: when a call that requests only CONTENT_LINE reports no
\* token because the input begins with the marker, the cursor is left where
\* the call started, and a call that requests only CELL_END made right
\* after it at the cursor as it was left yields CELL_END.
C13_CursorNotCommitted ==
  (OnlyContentLine /\ ~ret /\ BeginsWithMarker) =>
    /\ lexer.pos = Start
    /\ LET again == scan(start_call(lexer, lexer.pos), CellEndOnly) IN
       again.ret /\ again.lexer.result_symbol = CELL_END

\* C13 amended: when a call that requests only CONTENT_LINE reports no
\* token because the input begins with the marker, the scanner leaves the
\* cursor advanced past the whole marker, with the token end marked at the
\* call's start and no result kind written; a call that requests only
\* CELL_END yields CELL_END once the host has put the cursor back at the
\* call's start.
C13_AdvancedUntilRewound ==
  (OnlyContentLine /\ ~ret /\ BeginsWithMarker) =>
    /\ lexer.pos = Start + Len(MarkerLiteral)
    /\ lexer.marked /\ lexer.token_end = Start
    /\ lexer.writes = 0
    /\ LET again == scan(start_call(lexer, Start), CellEndOnly) IN
       again.ret /\ again.lexer.result_symbol = CELL_END

\* C13 witness: the host has put the cursor back at the start of a failed
\* CONTENT_LINE-only call on a marker line that is not the first line.
C13_Witness ==
  /\ OnlyContentLine /\ ~ret /\ BeginsWithMarker
  /\ Start > 0
  /\ cursor = Start

\* C14 (failed CELL_END match): when a call that requests only CELL_END
\* reports no token, the cursor is left advanced by the length of the
\* longest common prefix of the remaining input and the marker literal: by
\* nothing if the first character is not '#' or the input is at its end, by
\* less than the marker's length otherwise; the token end is not marked and
\* no result kind is written.
C14_PartialAdvanceStays ==
  (OnlyCellEnd /\ ~ret) =>
    /\ lexer.pos - Start = CommonPrefix(Rest, MarkerLiteral)
    /\ lexer.pos - Start < Len(MarkerLiteral)
    /\ (Len(Rest) = 0 \/ Rest[1] # HASH) => lexer.pos = Start
    /\ (Len(Rest) > 0 /\ Rest[1] = HASH) => lexer.pos - Start >= 1
    /\ ~lexer.marked
    /\ lexer.writes = 0 /\ lexer.result_symbol = entry.result_symbol

\* C14 witness: a CELL_END-only call fails on the last character of the
\* marker and leaves the cursor in front of it.
C14_Witness ==
  /\ OnlyCellEnd /\ ~ret
  /\ lexer.pos - Start = Len(MarkerLiteral) - 1
  /\ lexer.pos < Len(input)

\* C15 (priority order): when both kinds are requested and the input at
\* the cursor begins with the marker, the call emits CELL_END; the
\* CONTENT_LINE attempt has not run in a call that emits CELL_END (no token
\* end marked, the marker compared once, one write of the result kind), and
\* a call that requests both kinds emits CONTENT_LINE only on an input that
\* does not begin with the marker.
C15_CellEndFirst ==
  /\ (BothKinds /\ BeginsWithMarker) => EmitsCellEnd
  /\ EmitsCellEnd =>
       /\ ~lexer.marked
       /\ lexer.compares = Len(MarkerLiteral)
       /\ lexer.writes = 1
  /\ (BothKinds /\ EmitsContentLine) => ~BeginsWithMarker

\* C15 witness: both kinds are requested on a marker followed by a newline
\* and more text, and CELL_END is emitted.
C15_Witness ==
  /\ BothKinds /\ BeginsWithMarker /\ EmitsCellEnd
  /\ NewlineAfterMarker
  /\ lexer.pos < Len(input)

\* C16 (no empty token at end of input): at end of input without a
\* trailing newline a call emits CONTENT_LINE only if it consumed at least
\* one character; every successful call advances the cursor by at least one
\* character, and a CONTENT_LINE-only call that starts at end of input
\* produces no token.
C16_NoEmptyTokenAtEof ==
  /\ (/\ EmitsContentLine
      /\ lexer.pos = Len(input)
      /\ (lexer.pos = Start \/ input[lexer.pos] # NEWLINE))
       => lexer.advances >= 1
  /\ (called /\ ret) => lexer.pos > Start
  /\ (OnlyContentLine /\ Start = Len(input)) => ~ret

\* C17 (one line per call): whatever the request set and the result, the
\* cursor never moves beyond the position just after the first newline at
\* or after the call's start: at most one newline is consumed, as the last
\* character consumed, and nothing of the following line.
C17_WithinLine ==
  called =>
    /\ Start <= lexer.pos
    /\ lexer.pos <= LineEnd(Start)
    /\ \A i \in (Start + 1)..(lexer.pos - 1) : input[i] # NEWLINE

\* C17 witness: both kinds are requested on a line that starts with '#'
\* and is followed by another line; the call stops just after the newline.
C17_Witness ==
  /\ BothKinds
  /\ Len(Rest) > 0 /\ Rest[1] = HASH
  /\ lexer.pos = LineEnd(Start)
  /\ lexer.pos < Len(input)

\* C18 (only requested kinds): a successful call has written the result
\* kind once, the kind is CELL_END or CONTENT_LINE and is in the request
\* set; a failing call has not written the result kind.
C18_OnlyRequestedKinds ==
  called =>
    /\ ret => /\ lexer.result_symbol \in {CELL_END, CONTENT_LINE}
              /\ valid_symbols[lexer.result_symbol]
              /\ lexer.writes = 1
    /\ ~ret => /\ lexer.writes = 0
               /\ lexer.result_symbol = entry.result_symbol

\* C18 witness: a call fails after a partial marker match while the result
\* kind still holds the CELL_END of an earlier call.
C18_Witness ==
  /\ called /\ ~ret
  /\ lexer.pos > Start
  /\ entry.result_symbol = CELL_END
  /\ valid_symbols[CELL_END]

====
